---- MODULE Spec2Model ----
(***************************************************************************)
(* NetworkStore (src/src/stores/NetworkStore.js) of orbit-chat: the        *)
(* lifecycle of the IPFS transport node and the Orbit overlay node, the    *)
(* map of joined channels, the swarm peer list and the channel list saved  *)
(* in the network settings.  Every async method is cut at its awaits: the  *)
(* part up to an await is one step; the awaited call resolving, together   *)
(* with the part of the method that then resumes up to its next await, is  *)
(* the next step (the continuation runs as a microtask of the resolution,  *)
(* before any other event or call is served).                              *)
(*                                                                         *)
(* IpfsStore, OrbitStore, ChannelStore and the Orbit node itself are not   *)
(* part of the two source files; they are modelled from the interface the  *)
(* specification gives them (sections 2, 4.4 and 6).                       *)
(***************************************************************************)
EXTENDS Integers, Sequences, FiniteSets, TLC

\* Channel names the user, the settings and the overlay may mention.
Names == {"general", "dev"}

\* Peer lists a 'peers' event may carry.
PeerLists == {<<"A", "B">>, <<"C">>}

\* Number of start() / useJsIPFS() executions that may be in flight at once.
MaxStart == 2

\* Number of stop() executions that may be in flight at once.
MaxStop == 1

\* Number of transport handles, and of overlay handles, that may exist at once.
MaxNodes == 2

NodeIds == 1..MaxNodes

VARIABLES
    username,       \* sessionStore.username: TRUE when a user is logged in
    ipfsNode,       \* ipfsStore.node: a transport handle, 0 when absent
    orbitNode,      \* orbitStore.node: an overlay handle, 0 when absent
    ipfsStarting,   \* ipfsStore.starting
    orbitStarting,  \* orbitStore.starting
    liveIpfs,       \* transport handles started and not yet stopped
    liveOrbit,      \* overlay handles started and not yet stopped
    channels,       \* keys of NetworkStore.channels
    sessionsAlive,  \* per name: ChannelStores created minus ChannelStores stopped
    swarmPeers,     \* NetworkStore.swarmPeers
    savedChannels,  \* settingsStore.networkSettings.channels
    listeners,      \* per overlay handle: registrations of the three handlers
    pendingJoin,    \* per overlay handle: join requests not yet answered
    pendingLeave,   \* per overlay handle: leave requests not yet answered
    startTasks,     \* position of each start() / useJsIPFS() execution
    stopTasks,      \* position of each stop() execution and the handle it stops
    lastOp          \* the operation of the last step, its argument (a channel
                    \* name; for 'peers' the list carried, as text; for a stop()
                    \* that tears down, how many ChannelStores it stopped) and
                    \* its outcome

storeVars == <<ipfsNode, orbitNode, ipfsStarting, orbitStarting, liveIpfs, liveOrbit>>
netVars == <<channels, sessionsAlive, swarmPeers, savedChannels>>
overlayVars == <<listeners, pendingJoin, pendingLeave>>
taskVars == <<startTasks, stopTasks>>
vars == <<username, storeVars, netVars, overlayVars, taskVars, lastOp>>

Op(o, a, r) == [op |-> o, arg |-> a, result |-> r]

Min(S) == CHOOSE x \in S : \A y \in S : x <= y

SeqToSet(s) == {s[i] : i \in 1..Len(s)}

\* list.filter(c => c !== n)
Without(s, n) == SelectSeq(s, LAMBDA c : c # n)

\* The channel lists the settings may hold when the program starts.
SavedLists ==
    {<< >>, <<"general">>, <<"dev">>, <<"general", "dev">>, <<"dev", "general">>}

----------------------------------------------------------------------------
\* Computed getters of NetworkStore.

isOnline == ipfsNode # 0 /\ orbitNode # 0

starting == ipfsStarting \/ orbitStarting

channelNames == channels

----------------------------------------------------------------------------
\* Handles and tasks.

StartPcs == {"awaitIpfs", "awaitIpfsView", "awaitOrbit"}

\* Executions of start() and of ChannelView's useJsIPFS() in flight.
StartsInFlight ==
    startTasks["awaitIpfs"] + startTasks["awaitIpfsView"] + startTasks["awaitOrbit"]

IdleStop == {s \in 1..MaxStop : stopTasks[s].pc = "idle"}

\* Handles a stop() in flight still refers to.
HeldBy(pc) == {stopTasks[s].node : s \in {x \in 1..MaxStop : stopTasks[x].pc = pc}}

FreeIpfs == NodeIds \ (liveIpfs \cup HeldBy("awaitIpfs"))
FreeOrbit == NodeIds \ (liveOrbit \cup HeldBy("awaitOrbit"))

\* A transport (an overlay) can be started only while a handle is left for it,
\* the handles the executions in flight are going to take counted as taken.
TransportLeft ==
    Cardinality(FreeIpfs) > startTasks["awaitIpfs"] + startTasks["awaitIpfsView"]
OverlayLeft ==
    Cardinality(FreeOrbit) > startTasks["awaitIpfs"] + startTasks["awaitOrbit"]

Init ==
    /\ username \in BOOLEAN
    /\ ipfsNode = 0
    /\ orbitNode = 0
    /\ ipfsStarting = FALSE
    /\ orbitStarting = FALSE
    /\ liveIpfs = {}
    /\ liveOrbit = {}
    /\ channels = {}
    /\ sessionsAlive = [n \in Names |-> 0]
    /\ swarmPeers = << >>
    /\ savedChannels \in SavedLists
    /\ listeners = [o \in NodeIds |-> 0]
    /\ pendingJoin = [o \in NodeIds |-> {}]
    /\ pendingLeave = [o \in NodeIds |-> {}]
    /\ startTasks = [pc \in StartPcs |-> 0]
    /\ stopTasks = [s \in 1..MaxStop |-> [pc |-> "idle", node |-> 0]]
    /\ lastOp = Op("init", "", "")

----------------------------------------------------------------------------
\* start(): lines 160-168.

\* line 161
StartSkipsNever == FALSE
StartSkips == isOnline

\* start() up to its first await: the guard, then ipfsStore.useJsIPFS() is called.
StartBody ==
    IF StartSkips
    THEN /\ lastOp' = Op("start", "", "noop")
         /\ UNCHANGED <<storeVars, netVars, overlayVars, taskVars>>
    ELSE /\ StartsInFlight < MaxStart
         /\ TransportLeft
         /\ OverlayLeft
         /\ startTasks' = [startTasks EXCEPT !["awaitIpfs"] = @ + 1]
         /\ ipfsStarting' = TRUE
         /\ lastOp' = Op("start", "", "begun")
         /\ UNCHANGED <<ipfsNode, orbitNode, orbitStarting, liveIpfs, liveOrbit,
                        netVars, overlayVars, stopTasks>>

Start == StartBody /\ UNCHANGED username

\* ipfsStore.useJsIPFS() resolves for a start(): the store holds the new
\* transport handle; start() resumes at line 165 and calls orbitStore.init(this.ipfs).
IpfsReady ==
    /\ startTasks["awaitIpfs"] > 0
    /\ FreeIpfs # {}
    /\ ipfsNode' = Min(FreeIpfs)
    /\ liveIpfs' = liveIpfs \cup {Min(FreeIpfs)}
    /\ ipfsStarting' = FALSE
    /\ orbitStarting' = TRUE
    /\ startTasks' = [startTasks EXCEPT !["awaitIpfs"] = @ - 1, !["awaitOrbit"] = @ + 1]
    /\ lastOp' = Op("ipfsReady", "", "")
    /\ UNCHANGED <<username, orbitNode, liveOrbit, netVars, overlayVars, stopTasks>>

\* ipfsStore.useJsIPFS() resolves for ChannelView.checkNetwork().
IpfsReadyView ==
    /\ startTasks["awaitIpfsView"] > 0
    /\ FreeIpfs # {}
    /\ ipfsNode' = Min(FreeIpfs)
    /\ liveIpfs' = liveIpfs \cup {Min(FreeIpfs)}
    /\ ipfsStarting' = FALSE
    /\ startTasks' = [startTasks EXCEPT !["awaitIpfsView"] = @ - 1]
    /\ lastOp' = Op("ipfsReady", "", "view")
    /\ UNCHANGED <<username, orbitNode, orbitStarting, liveOrbit, netVars,
                   overlayVars, stopTasks>>

\* ipfsStore.useJsIPFS() rejects: the caller ends with the failure.
IpfsFail(pc) ==
    /\ pc \in {"awaitIpfs", "awaitIpfsView"}
    /\ startTasks[pc] > 0
    /\ startTasks' = [startTasks EXCEPT ![pc] = @ - 1]
    /\ lastOp' = Op("ipfsFail", "", "StartupFailure")
    /\ UNCHANGED <<username, storeVars, netVars, overlayVars, stopTasks>>

\* orbitStore.init() rejects: the caller's start() ends with the failure.
OrbitFail ==
    /\ startTasks["awaitOrbit"] > 0
    /\ startTasks' = [startTasks EXCEPT !["awaitOrbit"] = @ - 1]
    /\ lastOp' = Op("orbitFail", "", "StartupFailure")
    /\ UNCHANGED <<username, storeVars, netVars, overlayVars, stopTasks>>

\* lines 134, 146-148: the names the replay asks the overlay to join, the
\* overlay being present; the other joinChannel() calls reject or return.
ReplayRequestsNone(online) == {}
ReplayRequestsFirst(online) ==
    IF online /\ savedChannels # << >>
    THEN {Head(savedChannels)} \ channelNames
    ELSE {}
ReplayRequests(online) ==
    IF online THEN SeqToSet(savedChannels) \ channelNames ELSE {}

\* orbitStore.init() resolves: the store holds the new overlay handle;
\* start() resumes at line 167 and runs _onOrbitStarted(this.orbit), lines 128-135.
OrbitReady ==
    /\ startTasks["awaitOrbit"] > 0
    /\ FreeOrbit # {}
    /\ LET o == Min(FreeOrbit) IN
        /\ orbitNode' = o
        /\ liveOrbit' = liveOrbit \cup {o}
        /\ listeners' = [listeners EXCEPT ![o] = 1]
        /\ pendingJoin' = [pendingJoin EXCEPT ![o] = ReplayRequests(ipfsNode # 0)]
        /\ pendingLeave' = [pendingLeave EXCEPT ![o] = {}]
    /\ orbitStarting' = FALSE
    /\ startTasks' = [startTasks EXCEPT !["awaitOrbit"] = @ - 1]
    /\ lastOp' = Op("startDone", "", IF ipfsNode # 0 THEN "online" ELSE "offline")
    /\ UNCHANGED <<username, ipfsNode, ipfsStarting, liveIpfs, netVars, stopTasks>>

----------------------------------------------------------------------------
\* joinChannel() and leaveChannel(): lines 145-158.

\* lines 146 and 154
RejectsNever == FALSE
RejectsOffline == ~isOnline

\* line 147
JoinAsksAlways(n) == TRUE
JoinAsksOverlay(n) == n \notin channelNames

\* line 155
LeaveAsksOverlay(n) == n \in channelNames

\* joinChannel(n) up to its await; what follows the await only reads the map.
JoinChannel(n) ==
    /\ IF RejectsOffline
       THEN /\ lastOp' = Op("joinChannel", n, "NotOnline")
            /\ UNCHANGED pendingJoin
       ELSE IF ~JoinAsksOverlay(n)
       THEN /\ lastOp' = Op("joinChannel", n, "existing")
            /\ UNCHANGED pendingJoin
       ELSE /\ pendingJoin' = [pendingJoin EXCEPT ![orbitNode] = @ \cup {n}]
            /\ lastOp' = Op("joinChannel", n, "requested")
    /\ UNCHANGED <<username, storeVars, netVars, listeners, pendingLeave, taskVars>>

\* leaveChannel(n) up to its await; nothing follows the await.
LeaveChannel(n) ==
    /\ IF RejectsOffline
       THEN /\ lastOp' = Op("leaveChannel", n, "NotOnline")
            /\ UNCHANGED pendingLeave
       ELSE IF ~LeaveAsksOverlay(n)
       THEN /\ lastOp' = Op("leaveChannel", n, "absent")
            /\ UNCHANGED pendingLeave
       ELSE /\ pendingLeave' = [pendingLeave EXCEPT ![orbitNode] = @ \cup {n}]
            /\ lastOp' = Op("leaveChannel", n, "requested")
    /\ UNCHANGED <<username, storeVars, netVars, listeners, pendingJoin, taskVars>>

----------------------------------------------------------------------------
\* The handlers of the overlay's events: lines 84-124.

\* lines 95-98
SavedAfterJoinKept(n) == savedChannels
SavedAfterJoin(n) == Append(Without(savedChannels, n), n)

\* line 107
SavedAfterLeftKept(n) == savedChannels
SavedAfterLeft(n) == Without(savedChannels, n)

\* line 117, for every name of S: the ChannelStore under the name is stopped.
SessionsNotStopped(S) == sessionsAlive
SessionsStopped(S) ==
    [n \in Names |-> IF n \in S THEN sessionsAlive[n] - 1 ELSE sessionsAlive[n]]

\* _onJoinedChannel(n); this.orbit.channels[n] throws when the overlay is absent.
OnJoinedChannel(n) ==
    IF n \in channelNames
    THEN /\ lastOp' = Op("joined", n, "ignored")
         /\ UNCHANGED netVars
    ELSE IF orbitNode = 0
    THEN /\ lastOp' = Op("joined", n, "TypeError")
         /\ UNCHANGED netVars
    ELSE /\ channels' = channels \cup {n}
         /\ sessionsAlive' = [sessionsAlive EXCEPT ![n] = @ + 1]
         /\ savedChannels' = SavedAfterJoin(n)
         /\ lastOp' = Op("joined", n, "added")
         /\ UNCHANGED swarmPeers

\* _onLeftChannel(n); _removeChannel throws when the name is not in the map.
OnLeftChannel(n) ==
    IF n \notin channelNames
    THEN /\ lastOp' = Op("left", n, "TypeError")
         /\ UNCHANGED netVars
    ELSE /\ sessionsAlive' = SessionsStopped({n})
         /\ channels' = channels \ {n}
         /\ savedChannels' = SavedAfterLeft(n)
         /\ lastOp' = Op("left", n, "removed")
         /\ UNCHANGED swarmPeers

\* The overlay o answers a join request with its 'joined' event.
JoinedEvent(o, n) ==
    /\ o \in liveOrbit
    /\ n \in pendingJoin[o]
    /\ pendingJoin' = [pendingJoin EXCEPT ![o] = @ \ {n}]
    /\ IF listeners[o] = 0
       THEN /\ lastOp' = Op("joined", n, "unheard")
            /\ UNCHANGED netVars
       ELSE OnJoinedChannel(n)
    /\ UNCHANGED <<username, storeVars, listeners, pendingLeave, taskVars>>

\* The overlay o fails a join request: no event, the caller's promise rejects.
JoinFailed(o, n) ==
    /\ o \in liveOrbit
    /\ n \in pendingJoin[o]
    /\ pendingJoin' = [pendingJoin EXCEPT ![o] = @ \ {n}]
    /\ lastOp' = Op("joinFailed", n, "ChannelOperationFailure")
    /\ UNCHANGED <<username, storeVars, netVars, listeners, pendingLeave, taskVars>>

\* The overlay o answers a leave request with its 'left' event.
LeftEvent(o, n) ==
    /\ o \in liveOrbit
    /\ n \in pendingLeave[o]
    /\ pendingLeave' = [pendingLeave EXCEPT ![o] = @ \ {n}]
    /\ IF listeners[o] = 0
       THEN /\ lastOp' = Op("left", n, "unheard")
            /\ UNCHANGED netVars
       ELSE OnLeftChannel(n)
    /\ UNCHANGED <<username, storeVars, listeners, pendingJoin, taskVars>>

\* The overlay o fails a leave request.
LeaveFailed(o, n) ==
    /\ o \in liveOrbit
    /\ n \in pendingLeave[o]
    /\ pendingLeave' = [pendingLeave EXCEPT ![o] = @ \ {n}]
    /\ lastOp' = Op("leaveFailed", n, "ChannelOperationFailure")
    /\ UNCHANGED <<username, storeVars, netVars, listeners, pendingJoin, taskVars>>

\* line 112
PeersMerged(p) == swarmPeers \o p
PeersAfterUpdate(p) == p

\* The overlay o emits 'peers': _onSwarmPeerUpdate, lines 110-113.
PeersEvent(o, p) ==
    /\ o \in liveOrbit
    /\ IF listeners[o] = 0
       THEN /\ lastOp' = Op("peers", ToString(p), "unheard")
            /\ UNCHANGED swarmPeers
       ELSE /\ swarmPeers' = PeersAfterUpdate(p)
            /\ lastOp' = Op("peers", ToString(p), "updated")
    /\ UNCHANGED <<username, storeVars, channels, sessionsAlive, savedChannels,
                   overlayVars, taskVars>>

----------------------------------------------------------------------------
\* stop(): lines 170-180.

\* line 171
StopSkipsNever == FALSE
StopSkips == ~isOnline

\* line 174
ChannelsKept == channels
ChannelsAfterStop == channels \ channelNames

\* lines 138-140: removeListener takes away one registration, if there is one.
ListenersKept == listeners
ListenersAfterStop ==
    [listeners EXCEPT ![orbitNode] = IF @ > 0 THEN @ - 1 ELSE 0]

\* stop() up to its first await: the guard, the local teardown, then
\* orbitStore.stop() is called.
StopBody ==
    IF StopSkips
    THEN /\ lastOp' = Op("stop", "", "noop")
         /\ UNCHANGED <<storeVars, netVars, overlayVars, taskVars>>
    ELSE /\ IdleStop # {}
         /\ sessionsAlive' = SessionsStopped(channelNames)
         /\ channels' = ChannelsAfterStop
         /\ swarmPeers' = << >>
         /\ listeners' = ListenersAfterStop
         /\ stopTasks' = [stopTasks EXCEPT
                            ![Min(IdleStop)] = [pc |-> "awaitOrbit", node |-> orbitNode]]
         /\ lastOp' = Op("stop", ToString(Cardinality(channelNames)), "begun")
         /\ UNCHANGED <<storeVars, savedChannels, pendingJoin, pendingLeave, startTasks>>

Stop == StopBody /\ UNCHANGED username

\* orbitStore.stop() resolves: the overlay is stopped and the store's node
\* absent; stop() resumes at line 179 and calls ipfsStore.stop(), which has
\* nothing to stop when the store holds no node.
StopOrbitDone(s) ==
    /\ stopTasks[s].pc = "awaitOrbit"
    /\ liveOrbit' = liveOrbit \ {stopTasks[s].node}
    /\ orbitNode' = 0
    /\ listeners' = [listeners EXCEPT ![stopTasks[s].node] = 0]
    /\ pendingJoin' = [pendingJoin EXCEPT ![stopTasks[s].node] = {}]
    /\ pendingLeave' = [pendingLeave EXCEPT ![stopTasks[s].node] = {}]
    /\ stopTasks' = [stopTasks EXCEPT
                       ![s] = IF ipfsNode = 0 THEN [pc |-> "idle", node |-> 0]
                              ELSE [pc |-> "awaitIpfs", node |-> ipfsNode]]
    /\ lastOp' = Op("orbitStopped", "", "")
    /\ UNCHANGED <<username, ipfsNode, ipfsStarting, orbitStarting, liveIpfs,
                   netVars, startTasks>>

\* ipfsStore.stop() resolves: the transport is stopped and the store's node absent.
StopIpfsDone(s) ==
    /\ stopTasks[s].pc = "awaitIpfs"
    /\ liveIpfs' = liveIpfs \ {stopTasks[s].node}
    /\ ipfsNode' = 0
    /\ stopTasks' = [stopTasks EXCEPT ![s] = [pc |-> "idle", node |-> 0]]
    /\ lastOp' = Op("stopDone", "", "")
    /\ UNCHANGED <<username, orbitNode, ipfsStarting, orbitStarting, liveOrbit,
                   netVars, overlayVars, startTasks>>

----------------------------------------------------------------------------
\* The reaction on sessionStore.username: lines 26-32.

\* line 30
ReactionStarts == ~(isOnline \/ starting)

Login ==
    /\ ~username
    /\ username' = TRUE
    /\ IF ReactionStarts
       THEN StartBody
       ELSE /\ lastOp' = Op("login", "", "none")
            /\ UNCHANGED <<storeVars, netVars, overlayVars, taskVars>>

\* line 29
Logout ==
    /\ username
    /\ username' = FALSE
    /\ StopBody

\* ChannelView.checkNetwork(): lines 28-34 of ChannelView.js.
CheckNetwork ==
    /\ IF ~isOnline
       THEN /\ StartsInFlight < MaxStart
            /\ TransportLeft
            /\ startTasks' = [startTasks EXCEPT !["awaitIpfsView"] = @ + 1]
            /\ ipfsStarting' = TRUE
            /\ lastOp' = Op("checkNetwork", "", "useJsIPFS")
       ELSE /\ lastOp' = Op("checkNetwork", "", "noop")
            /\ UNCHANGED <<startTasks, ipfsStarting>>
    /\ UNCHANGED <<username, ipfsNode, orbitNode, orbitStarting, liveIpfs, liveOrbit,
                   netVars, overlayVars, stopTasks>>

----------------------------------------------------------------------------
Next ==
    \/ Start
    \/ Stop
    \/ Login
    \/ Logout
    \/ CheckNetwork
    \/ \E n \in Names : JoinChannel(n)
    \/ \E n \in Names : LeaveChannel(n)
    \/ IpfsReady
    \/ IpfsReadyView
    \/ \E pc \in StartPcs : IpfsFail(pc)
    \/ OrbitReady
    \/ OrbitFail
    \/ \E s \in 1..MaxStop : StopOrbitDone(s)
    \/ \E s \in 1..MaxStop : StopIpfsDone(s)
    \/ \E o \in NodeIds, n \in Names : JoinedEvent(o, n)
    \/ \E o \in NodeIds, n \in Names : JoinFailed(o, n)
    \/ \E o \in NodeIds, n \in Names : LeftEvent(o, n)
    \/ \E o \in NodeIds, n \in Names : LeaveFailed(o, n)
    \/ \E o \in NodeIds, p \in PeerLists : PeersEvent(o, p)

Spec == Init /\ [][Next]_vars

\* The identity reaction alone drives the lifecycle: nobody calls start(),
\* stop() or checkNetwork() directly.
NextIdentity ==
    \/ Login
    \/ Logout
    \/ \E n \in Names : JoinChannel(n)
    \/ \E n \in Names : LeaveChannel(n)
    \/ IpfsReady
    \/ \E pc \in StartPcs : IpfsFail(pc)
    \/ OrbitReady
    \/ OrbitFail
    \/ \E s \in 1..MaxStop : StopOrbitDone(s)
    \/ \E s \in 1..MaxStop : StopIpfsDone(s)
    \/ \E o \in NodeIds, n \in Names : JoinedEvent(o, n)
    \/ \E o \in NodeIds, n \in Names : JoinFailed(o, n)
    \/ \E o \in NodeIds, n \in Names : LeftEvent(o, n)
    \/ \E o \in NodeIds, n \in Names : LeaveFailed(o, n)
    \/ \E o \in NodeIds, p \in PeerLists : PeersEvent(o, p)

SpecIdentity == Init /\ [][NextIdentity]_vars

\* The identity is absent at construction, the identity reaction alone drives
\* the lifecycle, and no acquisition of the transport or the overlay fails.
InitLoggedOut == Init /\ ~username

NextLogin ==
    \/ Login
    \/ Logout
    \/ \E n \in Names : JoinChannel(n)
    \/ \E n \in Names : LeaveChannel(n)
    \/ IpfsReady
    \/ OrbitReady
    \/ \E s \in 1..MaxStop : StopOrbitDone(s)
    \/ \E s \in 1..MaxStop : StopIpfsDone(s)
    \/ \E o \in NodeIds, n \in Names : JoinedEvent(o, n)
    \/ \E o \in NodeIds, n \in Names : JoinFailed(o, n)
    \/ \E o \in NodeIds, n \in Names : LeftEvent(o, n)
    \/ \E o \in NodeIds, n \in Names : LeaveFailed(o, n)
    \/ \E o \in NodeIds, p \in PeerLists : PeersEvent(o, p)

SpecLogin == InitLoggedOut /\ [][NextLogin]_vars

\* One start() from the initial state and no other call: every acquisition
\* succeeds and every join request is answered with 'joined'.  The transport,
\* the overlay and the overlay's answers are not held back forever.
StartOnce == lastOp.op = "init" /\ Start

NextReplay ==
    \/ StartOnce
    \/ IpfsReady
    \/ OrbitReady
    \/ \E o \in NodeIds, n \in Names : JoinedEvent(o, n)
    \/ \E o \in NodeIds, p \in PeerLists : PeersEvent(o, p)

SpecReplay ==
    /\ Init
    /\ [][NextReplay]_vars
    /\ WF_vars(IpfsReady)
    /\ WF_vars(OrbitReady)
    /\ \A o \in NodeIds, n \in Names : WF_vars(JoinedEvent(o, n))

NoLifecycleInFlight == StartsInFlight = 0 /\ IdleStop = 1..MaxStop

----------------------------------------------------------------------------
\* C1: in every reachable state the channels map is empty whenever isOnline
\* is false.
C1_ChannelsEmptyWhenOffline == ~isOnline => channels = {}

\* C2: at most one transport and at most one overlay are started and not yet
\* stopped, however start() executions, the identity reaction and
\* ChannelView.checkNetwork() overlap.
C2_AtMostOneLivePair == Cardinality(liveIpfs) <= 1 /\ Cardinality(liveOrbit) <= 1

\* C3: once the identity is absent and every start() and stop() has run to
\* its end, the coordinator is offline with both handles released, whatever
\* phase it was in when the identity went away.
C3_ForcedStop ==
    (~username /\ NoLifecycleInFlight) => (ipfsNode = 0 /\ orbitNode = 0)

\* C4: a start() called while online (after a start() ran to completion and
\* no stop() came) returns at once: no transport or overlay is started, no
\* handler registered, nothing replayed.
C4_SecondStartReturns ==
    [][(lastOp'.op = "start" /\ isOnline)
         => (lastOp'.result = "noop"
             /\ UNCHANGED <<storeVars, netVars, overlayVars, taskVars>>)]_vars

C4_Witness ==
    /\ lastOp = Op("start", "", "noop")
    /\ liveIpfs = {ipfsNode}
    /\ liveOrbit = {orbitNode}
    /\ listeners[orbitNode] = 1
    /\ NoLifecycleInFlight

\* C5: after start() completes with the list L saved beforehand, and with
\* every join answered by 'joined', the channel names come to contain every
\* name of L without any further call.
C5_ReplayRejoins ==
    \A L \in SavedLists :
        (lastOp.op = "startDone" /\ savedChannels = L) ~> (SeqToSet(L) \subseteq channelNames)

C5_Witness ==
    /\ lastOp.op = "joined"
    /\ Len(savedChannels) = 2
    /\ channelNames = Names
    /\ isOnline

\* C6: while offline, joinChannel and leaveChannel fail with the not-online
\* error, ask nothing of the overlay and leave the channels, the peers and
\* the saved list as they were.
C6_OfflineCallsRejected ==
    [][(lastOp'.op \in {"joinChannel", "leaveChannel"} /\ ~isOnline)
         => (lastOp'.result = "NotOnline"
             /\ UNCHANGED <<netVars, pendingJoin, pendingLeave>>)]_vars

C6_Witness ==
    /\ lastOp = Op("joinChannel", "general", "NotOnline")
    /\ ~isOnline
    /\ savedChannels # << >>
    /\ orbitNode # 0

\* C7: a name that was joined (it is in the map) and whose leave the overlay
\* confirms with 'left' is afterwards neither among the channel names nor in
\* the saved list.
C7_RoundTrip ==
    [][(lastOp'.op = "left" /\ lastOp'.result # "unheard" /\ lastOp'.arg \in channelNames)
         => (lastOp'.arg \notin channels' /\ lastOp'.arg \notin SeqToSet(savedChannels'))]_vars

C7_Witness ==
    /\ lastOp = Op("left", "general", "removed")
    /\ isOnline
    /\ "general" \notin channelNames
    /\ "general" \notin SeqToSet(savedChannels)

\* C8: a stop() called while online stops every joined ChannelStore and
\* empties the map, asks the overlay for no leave and leaves the saved list
\* as it was.
C8_StopTearsDown ==
    [][(lastOp'.op = "stop" /\ isOnline)
         => (/\ lastOp'.result = "begun"
             /\ channels' = {}
             /\ \A n \in Names :
                  sessionsAlive'[n] = sessionsAlive[n] - (IF n \in channelNames THEN 1 ELSE 0)
             /\ UNCHANGED <<pendingLeave, savedChannels>>)]_vars

C8_Witness ==
    /\ lastOp = Op("stop", "2", "begun")
    /\ channels = {}
    /\ sessionsAlive = [n \in Names |-> 0]
    /\ Len(savedChannels) = 2

\* C9: the transport handle and the overlay handle are both present or both
\* absent in every reachable state, the states between the awaits of
\* start() and stop() and after a failed acquisition included.
C9_HandlesPaired == (ipfsNode = 0) <=> (orbitNode = 0)

\* C10: a stop() called while not online, the Stopped phase included, is a
\* no-op: nothing is unregistered, nothing stopped, nothing changed.
C10_StopWhenStoppedNoop ==
    [][(lastOp'.op = "stop" /\ ~isOnline)
         => (lastOp'.result = "noop"
             /\ UNCHANGED <<storeVars, netVars, overlayVars, taskVars>>)]_vars

C10_Witness ==
    /\ lastOp = Op("stop", "", "noop")
    /\ ipfsNode = 0
    /\ orbitNode = 0
    /\ liveIpfs = {}
    /\ liveOrbit = {}
    /\ NoLifecycleInFlight
    /\ savedChannels # << >>

\* C11: a 'peers' event the handler receives leaves the peer list equal to
\* the list the event carried, whatever the list was before, and a stop() that
\* tears down leaves it empty.
C11_PeersReplaced ==
    [][/\ (lastOp'.op = "peers" /\ lastOp'.result = "updated")
            => ToString(swarmPeers') = lastOp'.arg
       /\ (lastOp'.op = "stop" /\ lastOp'.result = "begun")
            => swarmPeers' = << >>]_vars

C11_Witness ==
    /\ lastOp = Op("peers", ToString(<<"C">>), "updated")
    /\ swarmPeers = <<"C">>
    /\ isOnline

\* C12: a 'left' event the handler receives completes without an error for
\* any name, leaves the name in neither channels nor the saved list, and
\* leaves channels as it was when the name was not in it.
C12_LeftAnyName ==
    [][(lastOp'.op = "left" /\ lastOp'.result # "unheard")
          => /\ lastOp'.result # "TypeError"
             /\ lastOp'.arg \notin channels'
             /\ lastOp'.arg \notin SeqToSet(savedChannels')
             /\ (lastOp'.arg \notin channels => channels' = channels)]_vars

\* C13: the handlers are registered at most once on an overlay's emitter,
\* only on the overlay the coordinator holds and only while it is Online, and
\* right after a stop() no overlay has them registered.
C13_HandlersOnlyWhileOnline ==
    \A o \in NodeIds :
        /\ listeners[o] <= 1
        /\ listeners[o] = 1 => (isOnline /\ o = orbitNode)
        /\ lastOp.op = "stop" => listeners[o] = 0

\* C14: a 'joined' event the handler receives changes nothing when the name
\* is already in channels; otherwise it inserts exactly one ChannelStore under
\* the name and the saved list becomes the previous list without the name,
\* followed by the name.
C14_JoinedDedup ==
    [][(lastOp'.op = "joined" /\ lastOp'.result # "unheard")
          => IF lastOp'.arg \in channels
             THEN UNCHANGED netVars
             ELSE /\ channels' = channels \cup {lastOp'.arg}
                  /\ sessionsAlive' =
                         [sessionsAlive EXCEPT ![lastOp'.arg] = @ + 1]
                  /\ savedChannels' =
                         Append(SelectSeq(savedChannels,
                                          LAMBDA c : c # lastOp'.arg),
                                lastOp'.arg)]_vars

\* C15: while Online, joinChannel of a name that is in channels answers with
\* the existing ChannelStore and sends no join to the overlay, and
\* leaveChannel of a name that is not in channels sends no leave; neither
\* changes any state.
C15_NoRequestWhenSettled ==
    [][/\ (lastOp'.op = "joinChannel" /\ isOnline /\ lastOp'.arg \in channels)
            => /\ lastOp'.result = "existing"
               /\ UNCHANGED <<username, storeVars, netVars, overlayVars,
                               taskVars>>
       /\ (lastOp'.op = "leaveChannel" /\ isOnline
                                       /\ lastOp'.arg \notin channels)
            => /\ lastOp'.result = "absent"
               /\ UNCHANGED <<username, storeVars, netVars, overlayVars,
                               taskVars>>]_vars

C15_Witness ==
    /\ lastOp = Op("joinChannel", "general", "existing")
    /\ isOnline
    /\ "general" \in channels
    /\ "dev" \notin channels
    /\ \A o \in NodeIds : pendingJoin[o] = {} /\ pendingLeave[o] = {}

\* C16: a start() that ends Online has sent the overlay a join for every
\* saved name that is not in channels, all in the step that ends it, and an
\* overlay join that fails afterwards leaves the coordinator's handles, its
\* tasks, its maps and every other pending join as they were.
C16_ReplayBestEffort ==
    [][/\ (lastOp'.op = "startDone" /\ lastOp'.result = "online")
            => /\ isOnline'
               /\ SeqToSet(savedChannels) \ channels
                      \subseteq pendingJoin'[orbitNode']
       /\ lastOp'.op = "joinFailed"
            => /\ UNCHANGED <<username, storeVars, netVars, taskVars>>
               /\ \A o \in NodeIds :
                      pendingJoin[o] \ {lastOp'.arg} \subseteq pendingJoin'[o]]_vars

C16_Witness ==
    /\ lastOp = Op("joinFailed", "general", "ChannelOperationFailure")
    /\ isOnline
    /\ NoLifecycleInFlight
    /\ savedChannels = <<"general", "dev">>
    /\ "dev" \in pendingJoin[orbitNode]

\* C17: in the step in which a stop() asks the overlay to stop, every
\* ChannelStore has been stopped and removed, the peer list is empty and the
\* handlers are off the overlay's emitter; a stop() asks the transport to stop
\* only from its wait for the overlay, whose stop has then completed.
C17_StopOrder ==
    [][\A s \in 1..MaxStop :
          /\ (stopTasks[s].pc # "awaitOrbit" /\ stopTasks'[s].pc = "awaitOrbit")
                => /\ channels' = {}
                   /\ \A n \in Names : sessionsAlive'[n] = 0
                   /\ swarmPeers' = << >>
                   /\ listeners'[stopTasks'[s].node] = 0
                   /\ stopTasks'[s].node \in liveOrbit'
                   /\ liveIpfs' = liveIpfs
          /\ (stopTasks[s].pc # "awaitIpfs" /\ stopTasks'[s].pc = "awaitIpfs")
                => /\ stopTasks[s].pc = "awaitOrbit"
                   /\ stopTasks[s].node \notin liveOrbit'
                   /\ stopTasks'[s].node \in liveIpfs']_vars

C17_Witness ==
    /\ lastOp.op = "orbitStopped"
    /\ \E s \in 1..MaxStop : stopTasks[s].pc = "awaitIpfs"
    /\ orbitNode = 0
    /\ ipfsNode # 0
    /\ channels = {}
    /\ swarmPeers = << >>

\* C18: every key of channels is an element of the saved list.
C18_ChannelsAreSaved == channels \subseteq SeqToSet(savedChannels)

C18_Witness ==
    /\ lastOp = Op("joined", "dev", "added")
    /\ channels = Names
    /\ savedChannels = <<"general", "dev">>

\* C19: a name has exactly one ChannelStore that was created and not yet
\* stopped when it is a key of channels, and none when it is not: no
\* ChannelStore is stopped twice, leaves the map unstopped or is overwritten.
C19_StoppedExactlyOnce ==
    \A n \in Names : sessionsAlive[n] = IF n \in channels THEN 1 ELSE 0

C19_Witness ==
    /\ lastOp = Op("left", "general", "removed")
    /\ "general" \notin channels
    /\ sessionsAlive["general"] = 0
    /\ "dev" \in channels
    /\ sessionsAlive["dev"] = 1

\* C20: once the identity has become present, the coordinator is Online as
\* soon as no start() and no stop() is in flight any more: with the identity
\* staying present nothing else would start it.
C20_LoggedInGetsOnline == (username /\ NoLifecycleInFlight) => isOnline

====
